---- MODULE Spec2Model ----
(***************************************************************************)
(* Device registry (backend/mac_manager.py) and firewall reconciliation    *)
(* (backend/opnsense_integration.py) of the parental-controls backend.     *)
(*                                                                         *)
(* Text is modelled as a sequence of one-character strings, so that the    *)
(* store file, the names and the raw MAC strings are parsed and formatted  *)
(* the way the Python code parses and formats them.                        *)
(***************************************************************************)
EXTENDS Integers, Sequences, FiniteSets, TLC

VARIABLES
    store,      \* content of mac_addresses.txt
    backups,    \* contents of the files of the backups/ directory, oldest first
    last,       \* the registry call made last: operation, arguments, outcome
    nops,       \* number of calls made so far
    conf,       \* remote /conf/config.xml
    staging,    \* remote /tmp/new_config.xml (<<>> when absent)
    nbak,       \* number of /conf/config_backup_parental_controls_*.xml files
    pass,       \* the reconciliation pass made last: commands issued, outcome
    prior,      \* the pass made before that one: operation, argument, result
    npass,      \* number of passes made so far
    uuids,      \* number of uuid4 values drawn so far
    now,        \* wall clock, in seconds
    running     \* the calls in flight when callers overlap: what each has read

vars == <<store, backups, last, nops, conf, staging, nbak, pass, prior, npass, uuids, now,
          running>>
regVars == <<store, backups, last, nops>>
fwVars == <<conf, staging, nbak, pass, prior, npass, uuids, running>>
remoteVars == <<conf, staging, nbak, pass, prior, npass, uuids>>

----------------------------------------------------------------------------
(* Bounds of the model *)

\* calls made in one behaviour
MaxOps == 2
\* largest device id passed to update and delete
MaxId == 3
\* reconciliation passes made in one behaviour
MaxPasses == 1
\* registry calls made between the passes of one behaviour
MaxFwCalls == 1
\* seconds the wall clock may advance
MaxTime == 1
\* reconciliation passes made in a row in one behaviour of SpecSeq
MaxSeqPasses == 2

\* lines of a store file that is loaded and saved again; saves made of it
MaxTripLines == 2
MaxResaves == 2

\* normalize_mac applied to a raw string and again to what it returned
MaxNormalize == 2

\* calls each of two overlapping callers makes
MaxRaceCalls == 1

\* passes each of two overlapping callers makes
MaxOverlapPasses == 1

----------------------------------------------------------------------------
(* Characters and strings *)

LowerLetters == <<"a", "b", "c", "d", "e", "f", "g", "h", "i", "j", "k", "l", "m", "n", "o", "p", "q", "r", "s", "t", "u", "v", "w", "x", "y", "z">>
UpperLetters == <<"A", "B", "C", "D", "E", "F", "G", "H", "I", "J", "K", "L", "M", "N", "O", "P", "Q", "R", "S", "T", "U", "V", "W", "X", "Y", "Z">>
DigitChars == <<"0", "1", "2", "3", "4", "5", "6", "7", "8", "9">>

Range(s) == {s[i] : i \in DOMAIN s}

\* a local variable: F applied to the value of v, v evaluated once
Bind(v, F(_)) == CHOOSE r \in {F(x) : x \in {v}} : TRUE

LowerSet == Range(LowerLetters)
UpperSet == Range(UpperLetters)
DigitSet == Range(DigitChars)

\* str.strip() and the \s of re: the ASCII whitespace characters
Whitespace == {" ", "\t", "\n", "\r", "\f"}

IndexIn(s, c) == CHOOSE i \in DOMAIN s : s[i] = c

\* the one character U+FB00, LATIN SMALL LIGATURE FF, which is no ASCII
\* letter and which str.upper() turns into the two characters "FF"
LigatureFf == "U+FB00"

\* str.upper(), str.lower(), one character at a time
UpperChar(c) == IF c \in LowerSet THEN UpperLetters[IndexIn(LowerLetters, c)] ELSE c
LowerChar(c) == IF c \in UpperSet THEN LowerLetters[IndexIn(UpperLetters, c)] ELSE c

RECURSIVE Upper(_)
Upper(s) ==
    IF s = <<>> THEN <<>>
    ELSE (IF Head(s) = LigatureFf THEN <<"F", "F">> ELSE <<UpperChar(Head(s))>>)
            \o Upper(Tail(s))
Lower(s) == [i \in DOMAIN s |-> LowerChar(s[i])]

\* str.lstrip(), str.rstrip(), str.strip()
RECURSIVE LStrip(_)
LStrip(s) == IF s # <<>> /\ s[1] \in Whitespace THEN LStrip(Tail(s)) ELSE s

RECURSIVE RStripTo(_, _)
RStripTo(s, n) ==
    IF n > 0 /\ s[n] \in Whitespace THEN RStripTo(s, n - 1) ELSE SubSeq(s, 1, n)

RStrip(s) == RStripTo(s, Len(s))

Strip(s) == Bind(LStrip(s), LAMBDA t : RStrip(t))

\* c in s
Contains(s, c) == \E i \in DOMAIN s : s[i] = c

\* the positions of character c in s, ascending
Positions(s, c) == SelectSeq([i \in 1..Len(s) |-> i], LAMBDA i : s[i] = c)

\* str.split(c)
Split(s, c) ==
    LET p == Positions(s, c)
        n == Len(p)
        from(k) == IF k = 1 THEN 1 ELSE p[k - 1] + 1
        to(k) == IF k = n + 1 THEN Len(s) ELSE p[k] - 1
    IN  [k \in 1..(n + 1) |-> SubSeq(s, from(k), to(k))]

\* str.split(c, 1) of a string that contains c
SplitOnce(s, c) ==
    LET p == Positions(s, c)[1]
    IN  <<SubSeq(s, 1, p - 1), SubSeq(s, p + 1, Len(s))>>

\* c.join(parts)
RECURSIVE Join(_, _)
Join(parts, c) ==
    IF Len(parts) = 0 THEN <<>>
    ELSE IF Len(parts) = 1 THEN parts[1]
    ELSE parts[1] \o <<c>> \o Join(Tail(parts), c)

\* str(n) of a natural number
RECURSIVE NatToStr(_)
NatToStr(n) ==
    IF n < 10 THEN <<DigitChars[n + 1]>>
    ELSE NatToStr(n \div 10) \o <<DigitChars[(n % 10) + 1]>>

RECURSIVE DigitsValue(_)
DigitsValue(s) ==
    IF s = <<>> THEN 0
    ELSE 10 * DigitsValue(SubSeq(s, 1, Len(s) - 1)) + (IndexIn(DigitChars, s[Len(s)]) - 1)

\* int(s): surrounding whitespace, an optional sign, decimal digits; anything
\* else raises ValueError (ok = FALSE).  Digit-group underscores and non-ASCII
\* digits, which int() also accepts, are not in the alphabet of the inputs.
ParseInt(s) ==
    Bind(Strip(s), LAMBDA t :
    Bind(t # <<>> /\ t[1] \in {"+", "-"}, LAMBDA signed :
    Bind(IF signed THEN Tail(t) ELSE t, LAMBDA digits :
        IF digits # <<>> /\ \A i \in DOMAIN digits : digits[i] \in DigitSet
        THEN [ok |-> TRUE,
              val |-> IF signed /\ t[1] = "-" THEN 0 - DigitsValue(digits)
                      ELSE DigitsValue(digits)]
        ELSE [ok |-> FALSE, val |-> 0])))

----------------------------------------------------------------------------
(* Validation: MACAddressManager.normalize_mac, validate_device_name *)

MacDigits == 12
NameLimit == 50

HexSet == DigitSet \cup {"A", "B", "C", "D", "E", "F", "a", "b", "c", "d", "e", "f"}

\* re.sub(r'[^0-9A-Fa-f]', '', mac_address.upper())
CleanMac(raw) == SelectSeq(Upper(raw), LAMBDA c : c \in HexSet)

\* ':'.join(clean_mac[i:i+2] for i in range(0, 12, 2))
FormatMac(clean) ==
    [i \in 1..(MacDigits + MacDigits \div 2 - 1) |->
        IF i % 3 = 0 THEN ":" ELSE clean[i - (i \div 3)]]

\* ok = FALSE stands for the ValueError
normalize_mac(raw) ==
    Bind(CleanMac(raw), LAMBDA clean_mac :
        IF Len(clean_mac) # MacDigits THEN [ok |-> FALSE, val |-> <<>>]
        ELSE [ok |-> TRUE, val |-> FormatMac(clean_mac)])

\* the characters re.sub(r'[^a-zA-Z0-9_\-\s]', '', ...) keeps
NameChars == LowerSet \cup UpperSet \cup DigitSet \cup {"_", "-"} \cup Whitespace

validate_device_name(name) ==
    Bind(Strip(name), LAMBDA stripped :
    Bind(SelectSeq(stripped, LAMBDA c : c \in NameChars), LAMBDA clean_name :
        IF stripped = <<>> \/ Len(clean_name) = 0 THEN [ok |-> FALSE, val |-> <<>>]
        ELSE IF Len(clean_name) > NameLimit
             THEN [ok |-> TRUE, val |-> SubSeq(clean_name, 1, NameLimit)]
             ELSE [ok |-> TRUE, val |-> clean_name]))

----------------------------------------------------------------------------
(* The store file: MACAddressManager.load_mac_addresses, save_mac_addresses *)

\* one line of the store: the device it yields, or none (the line is skipped)
\* the id and the name of the first field: "ID|Name", or the whole field as
\* the name and the line number as the id
IdAndName(id_name_part, line_num) ==
    IF ~Contains(id_name_part, "|") THEN [id |-> line_num, name |-> id_name_part]
    ELSE Bind(SplitOnce(id_name_part, "|"), LAMBDA pair :
         Bind(ParseInt(pair[1]), LAMBDA parsed :
            [id |-> IF parsed.ok THEN parsed.val ELSE line_num, name |-> pair[2]]))

ParseLine(raw, line_num) ==
    Bind(Strip(raw), LAMBDA line :
    Bind(Split(line, "\t"), LAMBDA parts :
        IF line = <<>> \/ Len(parts) < 2 THEN <<>>
        ELSE
        Bind(IdAndName(parts[1], line_num), LAMBDA head :
        Bind(normalize_mac(parts[2]), LAMBDA nm :
        Bind(validate_device_name(head.name), LAMBDA cn :
            IF ~nm.ok \/ ~cn.ok THEN <<>>
            ELSE << [id |-> head.id, name |-> cn.val, mac |-> nm.val,
                     original_mac |-> parts[2], enabled |-> TRUE,
                     line_number |-> line_num] >>)))))

RECURSIVE ParseLines(_, _)
ParseLines(lines, k) ==
    IF k = 0 THEN <<>>
    ELSE ParseLines(lines, k - 1) \o ParseLine(lines[k], k)

load_mac_addresses(content) ==
    Bind(Strip(content), LAMBDA c :
        IF c = <<>> THEN <<>>
        ELSE Bind(Split(c, "\n"), LAMBDA lines : ParseLines(lines, Len(lines))))

\* sorted(devices, key=id): stable
SortById(devices) ==
    LET n == Len(devices)
        rank(i) == Cardinality({j \in 1..n :
                        \/ devices[j].id < devices[i].id
                        \/ devices[j].id = devices[i].id /\ j < i}) + 1
    IN  [k \in 1..n |-> devices[CHOOSE i \in 1..n : rank(i) = k]]

\* f"{id}|{name}\t{original_mac}\t"
FormatLine(d) ==
    (IF d.id < 0 THEN <<"-">> \o NatToStr(0 - d.id) ELSE NatToStr(d.id))
        \o <<"|">> \o d.name \o <<"\t">> \o d.original_mac \o <<"\t">>

FormatLines(devices) ==
    Bind(SelectSeq(SortById(devices), LAMBDA d : d.enabled), LAMBDA kept :
        [k \in 1..Len(kept) |-> FormatLine(kept[k])])

\* what write_text receives
FileText(devices) == Join(FormatLines(devices), "\n") \o <<"\n">>

\* The outcomes of the file system calls of one save: every call works; the
\* write of the backup file raises; the write of the store file raises.
IoOutcomes == {"ok", "backup_fails", "write_fails"}

\* save_mac_addresses: the new store, the new backups and the value returned
save_mac_addresses(devices, file, bak, io) ==
    IF io = "backup_fails" THEN [store |-> file, backups |-> bak, ok |-> FALSE]
    ELSE IF io = "write_fails"
         THEN [store |-> file, backups |-> Append(bak, file), ok |-> FALSE]
         ELSE [store |-> FileText(devices), backups |-> Append(bak, file), ok |-> TRUE]

----------------------------------------------------------------------------
(* Registry operations: add_device, update_device, delete_device,          *)
(* get_device, get_enabled_devices, import_from_text                       *)

NoDevice == [id |-> 0, name |-> <<>>, mac |-> <<>>, original_mac |-> <<>>,
             enabled |-> FALSE, line_number |-> 0]

\* an optional argument: None, or a value
None == [some |-> FALSE, val |-> <<>>]
Some(v) == [some |-> TRUE, val |-> v]

Ids(devices) == {devices[i].id : i \in DOMAIN devices}

MaxOf(S) == CHOOSE x \in S : \A y \in S : y <= x

\* the duplicate check of add_device: the first device, in list order, that
\* has the MAC or (compared in lower case) the name decides the error
\* (variant: names compared as written)
AddConflictLowerless(devices, clean_name, normalized_mac) ==
    LET hit == {i \in DOMAIN devices :
                    \/ devices[i].mac = normalized_mac
                    \/ devices[i].name = clean_name}
    IN  IF hit = {} THEN "none"
        ELSE LET i == CHOOSE i \in hit : \A j \in hit : i <= j
             IN  IF devices[i].mac = normalized_mac THEN "duplicate_mac"
                 ELSE "duplicate_name"

AddConflict(devices, clean_name, normalized_mac) ==
    LET hit == {i \in DOMAIN devices :
                    \/ devices[i].mac = normalized_mac
                    \/ Lower(devices[i].name) = Lower(clean_name)}
    IN  IF hit = {} THEN "none"
        ELSE LET i == CHOOSE i \in hit : \A j \in hit : i <= j
             IN  IF devices[i].mac = normalized_mac THEN "duplicate_mac"
                 ELSE "duplicate_name"

\* max([d.get('id', 0) for d in devices]) + 1, or 1
NewId(devices) == IF Len(devices) = 0 THEN 1 ELSE MaxOf(Ids(devices)) + 1

Failed(file, bak, why) ==
    [result |-> why, store |-> file, backups |-> bak, device |-> NoDevice]

\* what a call that got to save_mac_addresses leaves and returns
Saved(saved, device) ==
    [result |-> IF saved.ok THEN "ok" ELSE "save_failed",
     store |-> saved.store, backups |-> saved.backups,
     device |-> IF saved.ok THEN device ELSE NoDevice]

add_device(file, bak, name, mac, io) ==
    Bind(load_mac_addresses(file), LAMBDA devices :
    Bind(validate_device_name(name), LAMBDA cn :
    Bind(normalize_mac(mac), LAMBDA nm :
        IF ~cn.ok THEN Failed(file, bak, "invalid_name")
        ELSE IF ~nm.ok THEN Failed(file, bak, "invalid_mac")
        ELSE
        Bind(AddConflict(devices, cn.val, nm.val), LAMBDA conflict :
            IF conflict # "none" THEN Failed(file, bak, conflict)
            ELSE
            Bind([id |-> NewId(devices), name |-> cn.val, mac |-> nm.val,
                  original_mac |-> mac, enabled |-> TRUE,
                  line_number |-> Len(devices) + 1], LAMBDA new_device :
            Bind(save_mac_addresses(Append(devices, new_device), file, bak, io),
                 LAMBDA saved : Saved(saved, new_device)))))))

\* add_device from the moment load_mac_addresses has returned devices: the
\* file and the backups are the ones found when save_mac_addresses runs
\* (variant: the file is read again when the device is saved)
add_device_rereading(devices, file, bak, name, mac, io) ==
    add_device(file, bak, name, mac, io)

add_device_after_read(devices, file, bak, name, mac, io) ==
    Bind(validate_device_name(name), LAMBDA cn :
    Bind(normalize_mac(mac), LAMBDA nm :
        IF ~cn.ok THEN Failed(file, bak, "invalid_name")
        ELSE IF ~nm.ok THEN Failed(file, bak, "invalid_mac")
        ELSE
        Bind(AddConflict(devices, cn.val, nm.val), LAMBDA conflict :
            IF conflict # "none" THEN Failed(file, bak, conflict)
            ELSE
            Bind([id |-> NewId(devices), name |-> cn.val, mac |-> nm.val,
                  original_mac |-> mac, enabled |-> TRUE,
                  line_number |-> Len(devices) + 1], LAMBDA new_device :
            Bind(save_mac_addresses(Append(devices, new_device), file, bak, io),
                 LAMBDA saved : Saved(saved, new_device))))))

\* the conflict checks of update_device: only devices with another id count
NameTaken(devices, device_id, clean_name) ==
    \E i \in DOMAIN devices :
        devices[i].id # device_id /\ Lower(devices[i].name) = Lower(clean_name)

MacTaken(devices, device_id, normalized_mac) ==
    \E i \in DOMAIN devices :
        devices[i].id # device_id /\ devices[i].mac = normalized_mac

\* the index of the first device with the id, 0 when there is none
FirstWithId(devices, device_id) ==
    Bind({i \in DOMAIN devices : devices[i].id = device_id}, LAMBDA found :
        IF found = {} THEN 0 ELSE CHOOSE i \in found : \A j \in found : i <= j)

update_device(file, bak, device_id, name, mac, enabled, io) ==
    Bind(load_mac_addresses(file), LAMBDA devices :
    Bind(FirstWithId(devices, device_id), LAMBDA k :
        IF k = 0 THEN Failed(file, bak, "not_found")
        ELSE
        Bind(validate_device_name(name.val), LAMBDA cn :
        Bind(normalize_mac(mac.val), LAMBDA nm :
            IF name.some /\ ~cn.ok THEN Failed(file, bak, "invalid_name")
            ELSE IF name.some /\ NameTaken(devices, device_id, cn.val)
                 THEN Failed(file, bak, "duplicate_name")
            ELSE IF mac.some /\ ~nm.ok THEN Failed(file, bak, "invalid_mac")
            ELSE IF mac.some /\ MacTaken(devices, device_id, nm.val)
                 THEN Failed(file, bak, "duplicate_mac")
            ELSE
            Bind([devices[k] EXCEPT
                    !.name = IF name.some THEN cn.val ELSE @,
                    !.mac = IF mac.some THEN nm.val ELSE @,
                    !.original_mac = IF mac.some THEN mac.val ELSE @,
                    !.enabled = IF enabled.some THEN enabled.val ELSE @], LAMBDA device :
            Bind(save_mac_addresses([devices EXCEPT ![k] = device], file, bak, io),
                 LAMBDA saved : Saved(saved, device)))))))

\* (variant: the list is saved whether or not a device was removed)
delete_device_unchecked(file, bak, device_id, io) ==
    Bind(load_mac_addresses(file), LAMBDA devices :
    Bind(SelectSeq(devices, LAMBDA d : d.id # device_id), LAMBDA rest :
         Bind(save_mac_addresses(rest, file, bak, io),
              LAMBDA saved : Saved(saved, NoDevice))))

\* delete_device returns what save_mac_addresses returns
delete_device(file, bak, device_id, io) ==
    Bind(load_mac_addresses(file), LAMBDA devices :
    Bind(SelectSeq(devices, LAMBDA d : d.id # device_id), LAMBDA rest :
        IF Len(rest) = Len(devices) THEN Failed(file, bak, "not_found")
        ELSE Bind(save_mac_addresses(rest, file, bak, io),
                  LAMBDA saved : Saved(saved, NoDevice))))

\* get_device: the first device with the id, or NoDevice for None
get_device(file, device_id) ==
    Bind(load_mac_addresses(file), LAMBDA devices :
    Bind(FirstWithId(devices, device_id), LAMBDA k :
        IF k = 0 THEN NoDevice ELSE devices[k]))

get_enabled_devices(file) == SelectSeq(load_mac_addresses(file), LAMBDA d : d.enabled)

\* one line of import_from_text, applied to the running state
\* [store, backups, added, errors]
\* the name of a tab-separated line: what follows the first "|", if any
ImportName(name_part) ==
    IF Contains(name_part, "|") THEN SplitOnce(name_part, "|")[2] ELSE name_part

\* the add_device call of a line, counted or recorded as an error
ImportAdd(st, name, mac, line_num, io) ==
    Bind(add_device(st.store, st.backups, Strip(name), Strip(mac), io), LAMBDA r :
        IF r.result = "ok"
        THEN [st EXCEPT !.store = r.store, !.backups = r.backups, !.added = @ + 1]
        ELSE [st EXCEPT !.store = r.store, !.backups = r.backups,
                        !.errors = Append(@, [line |-> line_num, why |-> r.result])])

ImportLine(st, raw, line_num, io) ==
    Bind(Strip(raw), LAMBDA line :
        IF line = <<>> THEN st
        ELSE IF Contains(line, "\t")
        THEN Bind(Split(line, "\t"), LAMBDA parts :
                ImportAdd(st, ImportName(parts[1]), parts[2], line_num, io))
        ELSE IF Contains(line, ",")
        THEN Bind(Split(line, ","), LAMBDA parts :
                ImportAdd(st, parts[1], parts[2], line_num, io))
        ELSE [st EXCEPT !.errors = Append(@, [line |-> line_num, why |-> "unrecognized"])])

RECURSIVE ImportLines(_, _, _, _)
ImportLines(st, lines, k, io) ==
    IF k = 0 THEN st
    ELSE Bind(ImportLines(st, lines, k - 1, io), LAMBDA prev :
            ImportLine(prev, lines[k], k, io))

import_from_text(file, bak, text, io) ==
    Bind(Split(text, "\n"), LAMBDA lines :
        ImportLines([store |-> file, backups |-> bak, added |-> 0, errors |-> <<>>],
                    lines, Len(lines), io))

----------------------------------------------------------------------------
(* Inputs of the registry calls *)

NameTv == <<"t", "v">>
NameTvUpper == <<"T", "V">>
\* cleans to " tv": strip() runs before the characters are removed
NameBangTv == <<"!", " ", "t", "v">>
\* no character survives the cleaning
NameBang == <<"!">>
\* names with inner line breaks and tabs, which the cleaning keeps
NameInject1 == <<"a", "\n", "b", "\t", "A", "A", "B", "B", "C", "C", "D", "D", "E", "E", "0", "1">>
NameInject2 == <<"a", "\n", "b", "\n", "c", "\t", "A", "A", "B", "B", "C", "C", "D", "D", "E", "E", "0", "2">>

MacPlain1 == <<"A", "A", "B", "B", "C", "C", "D", "D", "E", "E", "0", "1">>
MacColonLower1 == <<"a", "a", ":", "b", "b", ":", "c", "c", ":", "d", "d", ":", "e", "e", ":", "0", "1">>
MacDash2 == <<"A", "A", "-", "B", "B", "-", "C", "C", "-", "D", "D", "-", "E", "E", "-", "0", "2">>
MacShort == <<"A", "A", "B", "B">>

TextMixed == <<"t", "v", ",", "A", "A", "B", "B", "C", "C", "D", "D", "E", "E", "0", "1", "\n", "n", "o", "n", "s", "e", "n", "s", "e", "\n", "7", "|", "p", "a", "d", "\t", "A", "A", "-", "B", "B", "-", "C", "C", "-", "D", "D", "-", "E", "E", "-", "0", "2">>
TextDup == <<"t", "v", ",", "A", "A", "B", "B", "C", "C", "D", "D", "E", "E", "0", "1", "\n", "T", "V", ",", "A", "A", "-", "B", "B", "-", "C", "C", "-", "D", "D", "-", "E", "E", "-", "0", "2">>

\* the second name cleans to " tv"
TextEdge == <<"t", "v", ",", "A", "A", "B", "B", "C", "C", "D", "D", "E", "E", "0", "1", "\n", "!", " ", "t", "v", ",", "A", "A", "-", "B", "B", "-", "C", "C", "-", "D", "D", "-", "E", "E", "-", "0", "2">>

\* the first name cleans to " ", one blank
TextBlank == <<"!", " ", "!", ",", "A", "A", "B", "B", "C", "C", "D", "D", "E", "E", "0", "1", "\n", "p", "a", "d", ",", "A", "A", "-", "B", "B", "-", "C", "C", "-", "D", "D", "-", "E", "E", "-", "0", "2">>

Names == {NameTv, NameTvUpper, NameBangTv, NameBang, NameInject1, NameInject2}
Macs == {MacPlain1, MacColonLower1, MacDash2, MacShort}
Texts == {TextMixed, TextDup, TextEdge, TextBlank}

IoFaults == IoOutcomes \ {"ok"}

\* add_device(name, mac): every name with every MAC on a working file system,
\* and one call under each file system fault
AddCalls ==
    {<<n, m, "ok">> : n \in Names, m \in Macs}
        \cup {<<NameTvUpper, MacDash2, io>> : io \in IoFaults}

\* update_device(id, name=..), (id, mac=..), (id, enabled=..), and one call
\* that passes all three
UpdateArgs ==
    {<<Some(n), None, None>> : n \in {NameTvUpper, NameBangTv, NameInject1}}
        \cup {<<None, Some(m), None>> : m \in {MacColonLower1, MacDash2, MacShort}}
        \cup {<<None, None, Some(e)>> : e \in BOOLEAN}
        \cup {<<Some(NameTvUpper), Some(MacDash2), Some(TRUE)>>}

UpdateCalls ==
    {<<id, a, "ok">> : id \in 1..MaxId, a \in UpdateArgs}
        \cup {<<id, <<None, Some(MacDash2), None>>, io>> : id \in 1..MaxId, io \in IoFaults}

DeleteCalls == (1..MaxId) \X IoOutcomes

ImportCalls == Texts \X IoOutcomes

----------------------------------------------------------------------------
(* The registry calls as actions *)

NoCall == [op |-> "none", name |-> None, mac |-> None, id |-> 0, enabled |-> None,
           text |-> <<>>, io |-> "none", result |-> "none", device |-> NoDevice,
           added |-> 0, errors |-> <<>>]

Add(name, mac, io) ==
    \E r \in {add_device(store, backups, name, mac, io)} :
        /\ store' = r.store
        /\ backups' = r.backups
        /\ last' = [NoCall EXCEPT !.op = "add", !.name = Some(name), !.mac = Some(mac),
                                  !.io = io, !.result = r.result, !.device = r.device]
        /\ nops' = nops + 1
        /\ UNCHANGED <<fwVars, now>>

Update(device_id, name, mac, enabled, io) ==
    \E r \in {update_device(store, backups, device_id, name, mac, enabled, io)} :
        /\ store' = r.store
        /\ backups' = r.backups
        /\ last' = [NoCall EXCEPT !.op = "update", !.id = device_id, !.name = name,
                                  !.mac = mac, !.enabled = enabled, !.io = io,
                                  !.result = r.result, !.device = r.device]
        /\ nops' = nops + 1
        /\ UNCHANGED <<fwVars, now>>

Delete(device_id, io) ==
    \E r \in {delete_device(store, backups, device_id, io)} :
        /\ store' = r.store
        /\ backups' = r.backups
        /\ last' = [NoCall EXCEPT !.op = "delete", !.id = device_id, !.io = io,
                                  !.result = r.result]
        /\ nops' = nops + 1
        /\ UNCHANGED <<fwVars, now>>

Import(text, io) ==
    \E r \in {import_from_text(store, backups, text, io)} :
        /\ store' = r.store
        /\ backups' = r.backups
        /\ last' = [NoCall EXCEPT !.op = "import", !.text = text, !.io = io,
                                  !.result = "ok", !.added = r.added,
                                  !.errors = r.errors]
        /\ nops' = nops + 1
        /\ UNCHANGED <<fwVars, now>>

----------------------------------------------------------------------------
(* The remote configuration document: /conf/config.xml as the element tree  *)
(* ET.fromstring builds from it.  ET.tostring and ET.fromstring keep the    *)
(* order, the attributes and the text of the elements the passes read; an   *)
(* element with empty text and one with no text are written alike and read  *)
(* alike by the code, and both are "" here.                                 *)
(*                                                                          *)
(*   sections  how much of OPNsense/Firewall/Alias/aliases exists (0..4)    *)
(*   version   text of Alias/version ("" when absent)                       *)
(*   aliases   the alias elements of the aliases section, in order          *)
(*   filter    whether the filter section exists                            *)
(*   rules     the rule elements of the filter section, in order            *)

AliasName == "ParentalControlMACs"
RuleMarker == "ParentalControlBlock"

\* the children create_or_update_mac_alias writes besides enabled, name,
\* type, content and description
AliasRest == "path_expression=,proto=,interface=,counters=0,updatefreq="

ForeignAlias ==
    [uuid |-> 0 - 1, enabled |-> "1", name |-> "Printers", type |-> "host",
     content |-> <<"1", "0", ".", "0", ".", "0", ".", "9">>,
     descr |-> [text |-> "office printers", count |-> 0, stamp |-> 0],
     rest |-> "categories="]

\* an alias of an earlier pass whose device list is out of date
StaleAlias ==
    [uuid |-> 0 - 2, enabled |-> "0", name |-> AliasName, type |-> "mac",
     content |-> <<"0", "0", ":", "0", "0", ":", "0", "0", ":", "0", "0", ":", "0", "0", ":", "0", "9">>,
     descr |-> [text |-> "Parental Controls MAC Addresses", count |-> 1, stamp |-> 0],
     rest |-> AliasRest]

ForeignRule ==
    [uuid |-> 0 - 3, type |-> "pass", interface |-> "lan", ipprotocol |-> "inet",
     statetype |-> "keep state", direction |-> "in", quick |-> "1", disabled |-> "",
     source |-> "lan", destination |-> "any",
     descr |-> [marker |-> FALSE, text |-> "Default allow LAN to any rule", stamp |-> 0]]

\* a rule of an earlier pass, switched off
ManagedRule ==
    [uuid |-> 0 - 4, type |-> "block", interface |-> "lan", ipprotocol |-> "inet46",
     statetype |-> "keep state", direction |-> "in", quick |-> "1", disabled |-> "1",
     source |-> AliasName, destination |-> "any",
     descr |-> [marker |-> TRUE,
                text |-> "ParentalControlBlock - Block devices in ParentalControlMACs alias - Auto-generated",
                stamp |-> 0]]

\* a rule an operator wrote by hand around the marker, with no disabled element
HandRule ==
    [uuid |-> 0 - 5, type |-> "block", interface |-> "wan", ipprotocol |-> "inet",
     statetype |-> "none", direction |-> "out", quick |-> "", disabled |-> "",
     source |-> "any", destination |-> "any",
     descr |-> [marker |-> TRUE, text |-> "old ParentalControlBlock test", stamp |-> 0]]

Document(ok, sections, version, aliases, filter, rules) ==
    [wellformed |-> ok, sections |-> sections, version |-> version,
     aliases |-> aliases, filter |-> filter, rules |-> rules]

DocBare == Document(TRUE, 0, "", <<>>, FALSE, <<>>)
DocPartial == Document(TRUE, 2, "", <<>>, TRUE, <<HandRule, ForeignRule>>)
DocFresh == Document(TRUE, 4, "1.0.0", <<ForeignAlias>>, TRUE, <<ForeignRule>>)
DocManaged ==
    Document(TRUE, 4, "1.0.1", <<ForeignAlias, StaleAlias>>, TRUE, <<ForeignRule, ManagedRule>>)
\* a file ET.fromstring cannot parse
DocMalformed == Document(FALSE, 0, "", <<>>, FALSE, <<>>)

InitDocs == {DocBare, DocPartial, DocFresh, DocManaged, DocMalformed}

----------------------------------------------------------------------------
(* The transport: OPNsenseManager.ssh_command and the scp of                *)
(* apply_config_xml.  Each command of a pass either works or fails (exit    *)
(* status, timeout, exception); a pass draws one outcome per command.       *)

Commands == {"backup", "fetch", "scp", "mv", "configd", "filter", "firewall", "alt"}

\* The outcome of a command the pass does not get to issue is irrelevant;
\* it is TRUE in the outcomes drawn.
Canonical(o) ==
    /\ ~o.backup => (o.fetch /\ o.scp /\ o.mv)
    /\ ~o.fetch => (o.scp /\ o.mv)
    /\ ~o.scp => o.mv
    /\ ~(o.backup /\ o.fetch /\ o.scp /\ o.mv) => (o.configd /\ o.filter /\ o.firewall)
    /\ o.firewall => o.alt

Outcomes == {o \in [Commands -> BOOLEAN] : Canonical(o)}

\* the outcomes that differ in the backup, the fetch, the copy, the install
\* and the two firewall-reconfigure scripts only
MainOutcomes == {o \in Outcomes : o.configd /\ o.filter}

Issued(c, ok) == [cmd |-> c, ok |-> ok]

\* apply_config_xml, after the install: the reload commands issued, in order
\* (variant: the chain ends at the first command that works)
ReloadChainFirstSuccess(o) ==
    <<Issued("configctl webgui restart configd", o.configd)>>
        \o (IF o.configd THEN <<>>
            ELSE <<Issued("configctl filter reload", o.filter)>>
                \o (IF o.filter THEN <<>>
                    ELSE <<Issued("/usr/local/etc/rc.configure_firewall", o.firewall)>>
                        \o (IF o.firewall THEN <<>>
                            ELSE <<Issued("/usr/local/etc/rc.filter_configure", o.alt)>>)))

ReloadChain(o) ==
    << Issued("configctl webgui restart configd", o.configd),
       Issued("configctl filter reload", o.filter),
       Issued("/usr/local/etc/rc.configure_firewall", o.firewall) >>
        \o (IF o.firewall THEN <<>>
            ELSE <<Issued("/usr/local/etc/rc.filter_configure", o.alt)>>)

\* apply_config_xml, after the install: the value returned
\* (variant: a failed restart or filter reload fails the pass)
ReloadOkAllSteps(o) == o.configd /\ o.filter /\ (o.firewall \/ o.alt)

ReloadOk(o) == o.firewall \/ o.alt

\* apply_config_xml: /conf/config.xml after the copy and the mv
\* (variant: the copy itself lands on /conf/config.xml)
InstalledOnCopy(cur, xml, o) == IF o.scp THEN xml ELSE cur

Installed(cur, xml, o) == IF o.scp /\ o.mv THEN xml ELSE cur

\* apply_config_xml(xml) with /conf/config.xml = cur and /tmp/new_config.xml = stg
apply_config_xml(xml, cur, stg, o) ==
    IF ~o.scp
    THEN [ok |-> FALSE, stage |-> "push", conf |-> Installed(cur, xml, o), staging |-> stg,
          cmds |-> <<Issued("scp", FALSE)>>]
    ELSE IF ~o.mv
    THEN [ok |-> FALSE, stage |-> "install", conf |-> Installed(cur, xml, o),
          staging |-> <<xml>>,
          cmds |-> <<Issued("scp", TRUE), Issued("mv", FALSE)>>]
    ELSE [ok |-> ReloadOk(o), stage |-> IF ReloadOk(o) THEN "done" ELSE "apply",
          conf |-> Installed(cur, xml, o), staging |-> <<>>,
          cmds |-> <<Issued("scp", TRUE), Issued("mv", TRUE)>> \o ReloadChain(o)]

----------------------------------------------------------------------------
(* The reconciliation passes: create_or_update_mac_alias (sync_alias),      *)
(* create_parental_control_rule (ensure_block_rule) and                     *)
(* toggle_parental_controls (set_enforcement).  A pass returns the outcome, *)
(* the stage it stopped at, the commands it issued and the remote state it  *)
(* leaves.                                                                  *)

Stopped(stage, cmds, cur, stg, bak, ids) ==
    [ok |-> FALSE, stage |-> stage, cmds |-> cmds, conf |-> cur, staging |-> stg,
     nbak |-> bak, uuids |-> ids]

\* the head of a pass
\* (variant: the remote document is fetched before the backup is taken)
FetchPreludeFetchFirst(cur, backupFirst, o) ==
    LET b == IF backupFirst THEN <<Issued("cp /conf/config.xml", o.backup)>> ELSE <<>>
    IN  IF ~o.fetch THEN [stage |-> "fetch", cmds |-> <<Issued("cat /conf/config.xml", FALSE)>>]
        ELSE IF backupFirst /\ ~o.backup
             THEN [stage |-> "backup", cmds |-> <<Issued("cat /conf/config.xml", TRUE)>> \o b]
        ELSE [stage |-> IF cur.wellformed THEN "patch" ELSE "parse",
              cmds |-> <<Issued("cat /conf/config.xml", TRUE)>> \o b]

\* backup_config, get_config_xml and ET.fromstring at the head of a pass: the
\* stage the pass stops at ("patch" when it goes on) and the commands issued
FetchPrelude(cur, backupFirst, o) ==
    LET b == IF backupFirst THEN <<Issued("cp /conf/config.xml", o.backup)>> ELSE <<>>
    IN  IF backupFirst /\ ~o.backup THEN [stage |-> "backup", cmds |-> b]
        ELSE IF ~o.fetch
             THEN [stage |-> "fetch", cmds |-> b \o <<Issued("cat /conf/config.xml", FALSE)>>]
        ELSE [stage |-> IF cur.wellformed THEN "patch" ELSE "parse",
              cmds |-> b \o <<Issued("cat /conf/config.xml", TRUE)>>]

\* the head of create_or_update_mac_alias
\* (variant: the backup is taken before the devices are looked at)
SyncPreludeBackupFirst(devices, cur, o) ==
    IF ~o.backup \/ Len(devices) > 0 THEN FetchPrelude(cur, TRUE, o)
    ELSE [stage |-> "devices", cmds |-> <<Issued("cp /conf/config.xml", TRUE)>>]

SyncPrelude(devices, cur, o) ==
    IF Len(devices) = 0 THEN [stage |-> "devices", cmds |-> <<>>]
    ELSE FetchPrelude(cur, TRUE, o)

\* the index of the first alias with the name, 0 when there is none
\* (variant: only the first alias of the section is looked at)
find_alias_by_name_head(root, alias_name) ==
    IF root.sections < 4 \/ root.aliases = <<>> THEN 0
    ELSE IF root.aliases[1].name = alias_name THEN 1 ELSE 0

find_alias_by_name(root, alias_name) ==
    LET hit == {i \in DOMAIN root.aliases : root.aliases[i].name = alias_name}
    IN  IF root.sections < 4 \/ hit = {} THEN 0
        ELSE CHOOSE i \in hit : \A j \in hit : i <= j

\* '\n'.join(device['mac'] for device in enabled_devices)
\* (variant: the MACs as stored, not normalized)
AliasContentRaw(devices) == Join([i \in DOMAIN devices |-> devices[i].original_mac], "\n")

AliasContent(devices) == Join([i \in DOMAIN devices |-> devices[i].mac], "\n")

\* the alias element after the children are cleared and written again
AliasElement(uuid, devices, t) ==
    [uuid |-> uuid, enabled |-> "1", name |-> AliasName, type |-> "mac",
     content |-> AliasContent(devices),
     descr |-> [text |-> "Parental Controls MAC Addresses", count |-> Len(devices),
                stamp |-> t],
     rest |-> AliasRest]

\* the tree after the alias was found or created and rewritten
UpsertAlias(root, devices, fresh, t) ==
    LET made == [root EXCEPT !.sections = 4,
                             !.version = IF root.sections < 3 THEN "1.0.1" ELSE @]
        k == find_alias_by_name(made, AliasName)
    IN  IF k # 0
        THEN [made EXCEPT !.aliases[k] = AliasElement(made.aliases[k].uuid, devices, t)]
        ELSE [made EXCEPT !.aliases = Append(@, AliasElement(fresh, devices, t))]

\* a pass that got to apply_config_xml: a is what apply_config_xml returns
Applied(a, cmds, bak, ids) ==
    [ok |-> a.ok, stage |-> a.stage, cmds |-> cmds \o a.cmds, conf |-> a.conf,
     staging |-> a.staging, nbak |-> bak, uuids |-> ids]

create_or_update_mac_alias(file, cur, stg, bak, ids, t, o) ==
    Bind(get_enabled_devices(file), LAMBDA enabled_devices :
    Bind(SyncPrelude(enabled_devices, cur, o), LAMBDA pre :
        IF pre.stage \in {"devices", "backup"}
        THEN Stopped(pre.stage, pre.cmds, cur, stg, bak, ids)
        ELSE IF pre.stage # "patch"
        THEN Stopped(pre.stage, pre.cmds, cur, stg, bak + 1, ids)
        ELSE
        Bind(find_alias_by_name([cur EXCEPT !.sections = 4], AliasName) = 0, LAMBDA created :
        Bind(apply_config_xml(UpsertAlias(cur, enabled_devices, ids + 1, t), cur, stg, o),
             LAMBDA a : Applied(a, pre.cmds, bak + 1, IF created THEN ids + 1 ELSE ids)))))

\* the index of the first rule whose description holds the marker, 0 when
\* there is none
\* (variant: the first rule of the filter section, whatever it describes)
find_rule_first(root) ==
    IF ~root.filter \/ root.rules = <<>> THEN 0 ELSE 1

find_rule(root) ==
    LET hit == {i \in DOMAIN root.rules : root.rules[i].descr.marker}
    IN  IF ~root.filter \/ hit = {} THEN 0
        ELSE CHOOSE i \in hit : \A j \in hit : i <= j

\* the rule element after the children are cleared and written again
\* (variant: the rule is written switched on whatever enabled is)
RuleElementSwitchedOn(uuid, enabled, t) ==
    [uuid |-> uuid, type |-> "block", interface |-> "lan", ipprotocol |-> "inet46",
     statetype |-> "keep state", direction |-> "in", quick |-> "1", disabled |-> "0",
     source |-> AliasName, destination |-> "any",
     descr |-> [marker |-> TRUE,
                text |-> "ParentalControlBlock - Block devices in ParentalControlMACs alias - Auto-generated",
                stamp |-> t]]

RuleElement(uuid, enabled, t) ==
    [uuid |-> uuid, type |-> "block", interface |-> "lan", ipprotocol |-> "inet46",
     statetype |-> "keep state", direction |-> "in", quick |-> "1",
     disabled |-> IF enabled THEN "0" ELSE "1",
     source |-> AliasName, destination |-> "any",
     descr |-> [marker |-> TRUE,
                text |-> "ParentalControlBlock - Block devices in ParentalControlMACs alias - Auto-generated",
                stamp |-> t]]

\* the rule written into the filter section
\* (variant: a new rule is put in front of the rules found)
UpsertRuleInFront(root, enabled, fresh, t) ==
    LET made == [root EXCEPT !.filter = TRUE]
        k == find_rule(made)
    IN  IF k # 0
        THEN [made EXCEPT !.rules[k] = RuleElement(made.rules[k].uuid, enabled, t)]
        ELSE [made EXCEPT !.rules = <<RuleElement(fresh, enabled, t)>> \o @]

UpsertRule(root, enabled, fresh, t) ==
    LET made == [root EXCEPT !.filter = TRUE]
        k == find_rule(made)
    IN  IF k # 0
        THEN [made EXCEPT !.rules[k] = RuleElement(made.rules[k].uuid, enabled, t)]
        ELSE [made EXCEPT !.rules = Append(@, RuleElement(fresh, enabled, t))]

create_parental_control_rule(cur, stg, bak, ids, t, enabled, o) ==
    Bind(FetchPrelude(cur, TRUE, o), LAMBDA pre :
        IF pre.stage = "backup" THEN Stopped(pre.stage, pre.cmds, cur, stg, bak, ids)
        ELSE IF pre.stage # "patch"
        THEN Stopped(pre.stage, pre.cmds, cur, stg, bak + 1, ids)
        ELSE
        Bind(find_rule([cur EXCEPT !.filter = TRUE]) = 0, LAMBDA created :
        Bind(apply_config_xml(UpsertRule(cur, enabled, ids + 1, t), cur, stg, o),
             LAMBDA a : Applied(a, pre.cmds, bak + 1, IF created THEN ids + 1 ELSE ids))))

toggle_parental_controls(cur, stg, bak, ids, enable, o) ==
    Bind(FetchPrelude(cur, FALSE, o), LAMBDA pre :
    Bind(find_rule(cur), LAMBDA k :
        IF pre.stage # "patch" THEN Stopped(pre.stage, pre.cmds, cur, stg, bak, ids)
        ELSE IF k = 0 THEN Stopped("lookup", pre.cmds, cur, stg, bak, ids)
        ELSE
        Bind(apply_config_xml([cur EXCEPT !.rules[k].disabled = IF enable THEN "0" ELSE "1"],
                              cur, stg, o),
             LAMBDA a : Applied(a, pre.cmds, bak, ids))))

\* get_parental_control_status: rule_enabled of the rule found
\* (variant: the disabled flag read as the enabled flag)
StatusRuleEnabledInverted(rule) == rule.disabled = "1"

StatusRuleEnabled(rule) == rule.disabled # "1"

\* get_parental_control_status: the dictionary returned; error stands for
\* the dictionary that holds the key "error" only.  fetched is the outcome of
\* the one command it issues, cat /conf/config.xml
get_parental_control_status(file, cur, fetched) ==
    IF ~fetched \/ ~cur.wellformed
    THEN [error |-> TRUE, alias_exists |-> FALSE, rule_exists |-> FALSE,
          rule_enabled |-> FALSE, device_count |-> 0, controls_active |-> FALSE]
    ELSE
    Bind(find_alias_by_name(cur, AliasName) # 0, LAMBDA alias_exists :
    Bind(find_rule(cur), LAMBDA k :
    Bind(k # 0 /\ StatusRuleEnabled(cur.rules[k]), LAMBDA rule_enabled :
        [error |-> FALSE, alias_exists |-> alias_exists, rule_exists |-> k # 0,
         rule_enabled |-> rule_enabled,
         device_count |-> Len(get_enabled_devices(file)),
         controls_active |-> alias_exists /\ k # 0 /\ rule_enabled])))

----------------------------------------------------------------------------
(* The toggle request of the callers: toggle_controls of the HTTP backend   *)
(* and the toggle_parental_controls tool of the chat server.                *)

\* what the request answers and leaves: the two passes and the "success" of
\* the answer; toggled tells whether toggle_parental_controls was called
Answer(success, toggled, sync, final) ==
    [success |-> success, toggled |-> toggled, sync |-> sync, final |-> final]

\* (variant: the rule is toggled whatever the alias update returned)
toggle_controls_unguarded(file, cur, stg, bak, ids, t, target_state, o1, o2) ==
    Bind(create_or_update_mac_alias(file, cur, stg, bak, ids, t, o1), LAMBDA sync :
    Bind(toggle_parental_controls(sync.conf, sync.staging, sync.nbak, sync.uuids,
                                  target_state, o2),
         LAMBDA toggle : Answer(toggle.ok, TRUE, sync, toggle)))

toggle_controls(file, cur, stg, bak, ids, t, target_state, o1, o2) ==
    Bind(create_or_update_mac_alias(file, cur, stg, bak, ids, t, o1), LAMBDA sync :
        IF ~sync.ok THEN Answer(FALSE, FALSE, sync, sync)
        ELSE
        Bind(toggle_parental_controls(sync.conf, sync.staging, sync.nbak, sync.uuids,
                                      target_state, o2),
             LAMBDA toggle : Answer(toggle.ok, TRUE, sync, toggle)))

----------------------------------------------------------------------------
(* The passes as actions *)

\* no caller overlaps another
Callers == {1, 2}
NoneRunning == [p \in Callers |-> [pc |-> "idle", calls |-> 0]]

NoPass == [op |-> "none", enable |-> FALSE, result |-> FALSE, stage |-> "none",
           cmds |-> <<>>]

\* what is kept of a pass once the next one is made
Summary(p) == [op |-> p.op, enable |-> p.enable, result |-> p.result]

Made(op, enable, r) ==
    /\ conf' = r.conf
    /\ staging' = r.staging
    /\ nbak' = r.nbak
    /\ uuids' = r.uuids
    /\ pass' = [op |-> op, enable |-> enable, result |-> r.ok, stage |-> r.stage,
                cmds |-> r.cmds]
    /\ prior' = Summary(pass)
    /\ npass' = npass + 1
    /\ UNCHANGED <<regVars, now, running>>

SyncAlias(o) ==
    \E r \in {create_or_update_mac_alias(store, conf, staging, nbak, uuids, now, o)} :
        Made("sync_alias", FALSE, r)

EnsureBlockRule(enabled, o) ==
    \E r \in {create_parental_control_rule(conf, staging, nbak, uuids, now, enabled, o)} :
        Made("ensure_block_rule", enabled, r)

SetEnforcement(enable, o) ==
    \E r \in {toggle_parental_controls(conf, staging, nbak, uuids, enable, o)} :
        Made("set_enforcement", enable, r)

\* a toggle request: prior keeps the alias update, pass the last pass made
\* with the state asked for
ToggleControls(target_state, o1, o2) ==
    \E a \in {toggle_controls(store, conf, staging, nbak, uuids, now, target_state, o1, o2)} :
        /\ conf' = a.final.conf
        /\ staging' = a.final.staging
        /\ nbak' = a.final.nbak
        /\ uuids' = a.final.uuids
        /\ prior' = [op |-> "sync_alias", enable |-> FALSE, result |-> a.sync.ok]
        /\ pass' = [op |-> IF a.toggled THEN "set_enforcement" ELSE "sync_alias",
                    enable |-> target_state, result |-> a.final.ok,
                    stage |-> a.final.stage, cmds |-> a.final.cmds]
        /\ npass' = npass + (IF a.toggled THEN 2 ELSE 1)
        /\ last' = [NoCall EXCEPT !.op = "toggle_controls",
                                  !.result = IF a.success THEN "ok" ELSE "failed"]
        /\ nops' = nops + 1
        /\ UNCHANGED <<store, backups, now, running>>

\* a second passes on the wall clock
Tick ==
    /\ now < MaxTime
    /\ now' = now + 1
    /\ UNCHANGED <<regVars, fwVars>>

----------------------------------------------------------------------------
(* Specifications *)

\* MACAddressManager.__init__ on a fresh directory: an empty store file
InitRegistry ==
    /\ store = <<>>
    /\ backups = <<>>
    /\ last = NoCall
    /\ nops = 0

InitRemote ==
    /\ staging = <<>>
    /\ nbak = 0
    /\ pass = NoPass
    /\ prior = Summary(NoPass)
    /\ npass = 0
    /\ uuids = 0
    /\ now = 0
    /\ running = NoneRunning

\* The registry alone: every call sequence from the empty store.
Init == InitRegistry /\ InitRemote /\ conf = DocBare

Next ==
    \/ \E c \in AddCalls : nops < MaxOps /\ Add(c[1], c[2], c[3])
    \/ \E c \in UpdateCalls : nops < MaxOps /\ Update(c[1], c[2][1], c[2][2], c[2][3], c[3])
    \/ \E c \in DeleteCalls : nops < MaxOps /\ Delete(c[1], c[2])
    \/ \E c \in ImportCalls : nops < MaxOps /\ Import(c[1], c[2])

Spec == Init /\ [][Next]_vars

\* list(): the devices the store holds
list == load_mac_addresses(store)

\* The passes: the registry holds no, one or two devices, the remote host
\* holds one of the documents of InitDocs.
StoreOf(calls) == import_from_text(<<>>, <<>>, calls, "ok").store

OneDevice == <<"t", "v", ",", "a", "a", ":", "b", "b", ":", "c", "c", ":", "d", "d", ":", "e", "e", ":", "0", "1">>
TwoDevices == OneDevice \o <<"\n", "p", "a", "d", ",", "A", "A", "-", "B", "B", "-", "C", "C", "-", "D", "D", "-", "E", "E", "-", "0", "2">>

FwStores == {<<>>, StoreOf(OneDevice), StoreOf(TwoDevices)}

InitFw ==
    /\ store \in FwStores
    /\ backups = <<>>
    /\ last = NoCall
    /\ nops = 0
    /\ InitRemote
    /\ conf \in InitDocs

\* the outcomes of the commands set_enforcement issues: it takes no backup
ToggleOutcomes == {o \in MainOutcomes : o.backup}

NextFw ==
    \/ \E o \in Outcomes : npass < MaxPasses /\ SyncAlias(o)
    \/ \E e \in BOOLEAN, o \in MainOutcomes : npass < MaxPasses /\ EnsureBlockRule(e, o)
    \/ \E e \in BOOLEAN, o \in ToggleOutcomes : npass < MaxPasses /\ SetEnforcement(e, o)
    \/ \E id \in 1..MaxId : nops < MaxFwCalls /\ Delete(id, "ok")
    \/ Tick

SpecFw == InitFw /\ [][NextFw]_vars

\* A device is removed from the registry, by delete_device or by an update
\* that disables it, and the alias is synchronized before and after over a
\* transport whose commands all work
MaxRemovals == 1
MaxRemovalPasses == 2

AllWork == [c \in Commands |-> TRUE]

NextRemoval ==
    \/ \E o \in {AllWork} : npass < MaxRemovalPasses /\ SyncAlias(o)
    \/ \E id \in 1..MaxId : nops < MaxRemovals /\ Delete(id, "ok")
    \/ \E id \in 1..MaxId : nops < MaxRemovals /\ Update(id, None, None, Some(FALSE), "ok")
    \/ Tick

SpecRemoval == InitFw /\ [][NextRemoval]_vars

\* Passes made one after another: every command works, the fetch fails, or
\* both firewall-reconfigure scripts fail
SeqOutcomes == {o \in MainOutcomes : o.backup /\ o.scp /\ o.mv /\ (o.firewall \/ ~o.alt)}

NextSeq ==
    \/ \E o \in SeqOutcomes : npass < MaxSeqPasses /\ SyncAlias(o)
    \/ \E e \in BOOLEAN, o \in SeqOutcomes : npass < MaxSeqPasses /\ EnsureBlockRule(e, o)
    \/ \E e \in BOOLEAN, o \in SeqOutcomes : npass < MaxSeqPasses /\ SetEnforcement(e, o)
    \/ Tick

SpecSeq == InitFw /\ [][NextSeq]_vars

\* Toggle requests; the alias update and the toggle each draw their outcomes
MaxToggles == 1

NextToggle ==
    \/ \E e \in BOOLEAN, o1 \in SeqOutcomes, o2 \in SeqOutcomes :
           nops < MaxToggles /\ ToggleControls(e, o1, o2)
    \/ Tick

SpecToggle == InitFw /\ [][NextToggle]_vars

\* The round trip of the store file: the file holds up to MaxTripLines lines
\* written by hand or by an earlier version, and is loaded and saved again.
\* a line as save_mac_addresses writes it
LineTv == <<"1", "|", "t", "v", "\t", "A", "A", "B", "B", "C", "C", "D", "D", "E", "E", "0", "1", "\t">>

\* the name cleans to " tv"
LineBangTv == <<"2", "|", "!", " ", "t", "v", "\t", "a", "a", ":", "b", "b", ":", "c", "c", ":", "d", "d", ":", "e", "e", ":", "0", "2", "\t">>

\* no id: the line number is the id
LinePad == <<"p", "a", "d", "\t", "A", "A", "-", "B", "B", "-", "C", "C", "-", "D", "D", "-", "E", "E", "-", "0", "3">>

\* an id that is no number: the line number is the id
LineWordId == <<"x", "|", "t", "a", "b", "\t", "A", "A", "B", "B", "C", "C", "D", "D", "E", "E", "0", "4", "\t">>

\* no tab: the line is skipped
LineNoTab == <<"n", "o", "n", "s", "e", "n", "s", "e">>

\* an invalid MAC: the line is skipped
LineShortMac == <<"7", "|", "t", "v", "\t", "A", "A", "B", "B", "\t">>

\* a blank line
LineBlank == <<>>

TripLines == {LineTv, LineBangTv, LinePad, LineWordId, LineNoTab, LineShortMac, LineBlank}

RECURSIVE TripTexts(_)
TripTexts(n) ==
    IF n = 0 THEN {<<>>}
    ELSE TripTexts(n - 1)
            \cup {Join(ls, "\n") : ls \in [1..n -> TripLines]}

\* save_mac_addresses(load_mac_addresses())
Resave(io) ==
    \E r \in {save_mac_addresses(load_mac_addresses(store), store, backups, io)} :
        /\ store' = r.store
        /\ backups' = r.backups
        /\ last' = [NoCall EXCEPT !.op = "resave", !.io = io,
                                  !.result = IF r.ok THEN "ok" ELSE "save_failed"]
        /\ nops' = nops + 1
        /\ UNCHANGED <<fwVars, now>>

InitTrip ==
    /\ store \in TripTexts(MaxTripLines)
    /\ backups = <<>>
    /\ last = NoCall
    /\ nops = 0
    /\ InitRemote
    /\ conf = DocBare

NextTrip == \E io \in IoOutcomes : nops < MaxResaves /\ Resave(io)

SpecTrip == InitTrip /\ [][NextTrip]_vars

\* normalize_mac on its own: a raw string is a head, up to ten hexadecimal
\* digits in some notation, followed by a tail that does or does not
\* complete it; the value returned is normalized again.
HeadPlain == <<"A", "A", "B", "B", "C", "C", "D", "D", "E", "E">>
HeadColonLower == <<"a", "a", ":", "b", "b", ":", "c", "c", ":", "d", "d", ":", "e", "e", ":">>
HeadDash == <<"A", "A", "-", "B", "B", "-", "C", "C", "-", "D", "D", "-", "E", "E", "-">>
HeadMixed == <<"a", "A", " ", "b", "b", ".", "C", "c", "+", "d", "d", " ", "e", "e">>
HeadShort == <<"A", "A", "B", "B">>
HeadNone == <<>>
MacHeads == {HeadPlain, HeadColonLower, HeadDash, HeadMixed, HeadShort, HeadNone}
MacTails == {<<"0", "1">>, <<"f", "f">>, <<"F">>, <<"0", "g", "1">>, <<"0", "1", "2">>, <<":", "0", ":", "1", ":">>, <<>>, <<"z", "z">>, <<LigatureFf>>}
MacInputs == {h \o t : h \in MacHeads, t \in MacTails}

\* normalize_mac(last.mac): the argument is kept in text, the value returned
\* in mac
NormalizeMac ==
    /\ last.mac.some
    /\ \E r \in {normalize_mac(last.mac.val)} :
          last' = [NoCall EXCEPT !.op = "normalize_mac", !.text = last.mac.val,
                                 !.mac = IF r.ok THEN Some(r.val) ELSE None,
                                 !.result = IF r.ok THEN "ok" ELSE "invalid_mac"]
    /\ nops' = nops + 1
    /\ UNCHANGED <<store, backups, fwVars, now>>

InitMac ==
    /\ store = <<>>
    /\ backups = <<>>
    /\ \E x \in MacInputs : last = [NoCall EXCEPT !.op = "input", !.mac = Some(x)]
    /\ nops = 0
    /\ InitRemote
    /\ conf = DocBare

NextMac == nops < MaxNormalize /\ NormalizeMac

SpecMac == InitMac /\ [][NextMac]_vars

\* Two callers of add_device whose calls overlap: the read of the whole file
\* by load_mac_addresses and the write of the whole file by
\* save_mac_addresses are the steps, and nothing orders the steps of one
\* caller against those of the other.
NamePad == <<"p", "a", "d">>
NameCam == <<"c", "a", "m">>
MacDot3 == <<"a", "a", "b", "b", ".", "c", "c", "d", "d", ".", "e", "e", "0", "3">>
RaceCalls ==
    {<<NameTv, MacPlain1>>, <<NamePad, MacDash2>>, <<NameCam, MacDot3>>,
     <<NameTvUpper, MacColonLower1>>}

AddRead(p, name, mac) ==
    /\ running[p].pc \in {"idle", "done"}
    /\ running[p].calls < MaxRaceCalls
    /\ running' = [running EXCEPT ![p] =
            [pc |-> "read", calls |-> running[p].calls + 1, name |-> name, mac |-> mac,
             devices |-> load_mac_addresses(store), pre |-> store,
             result |-> "none", device |-> NoDevice]]
    /\ UNCHANGED <<regVars, remoteVars, now>>

AddWrite(p, io) ==
    /\ running[p].pc = "read"
    /\ \E r \in {add_device_after_read(running[p].devices, store, backups,
                                        running[p].name, running[p].mac, io)} :
          /\ store' = r.store
          /\ backups' = r.backups
          /\ running' = [running EXCEPT ![p].pc = "done", ![p].result = r.result,
                                        ![p].device = r.device]
    /\ UNCHANGED <<last, nops, remoteVars, now>>

InitRace ==
    /\ store \in {<<>>, StoreOf(OneDevice)}
    /\ backups = <<>>
    /\ last = NoCall
    /\ nops = 0
    /\ InitRemote
    /\ conf = DocBare

NextRace ==
    \/ \E p \in Callers, c \in RaceCalls : AddRead(p, c[1], c[2])
    \/ \E p \in Callers, io \in IoOutcomes : AddWrite(p, io)

SpecRace == InitRace /\ [][NextRace]_vars

\* Two callers whose reconciliation passes overlap: every transport command
\* is a step, the remote files /conf/config.xml and /tmp/new_config.xml are
\* shared, and every command works unless the file it moves is gone.

\* the document a pass builds from the document it fetched
\* (variant: set_enforcement writes the alias as well)
PatchOfWithAlias(op, enable, cur, file, ids, t) ==
    IF op = "sync_alias" THEN UpsertAlias(cur, get_enabled_devices(file), ids + 1, t)
    ELSE UpsertAlias([cur EXCEPT !.rules[find_rule(cur)].disabled = IF enable THEN "0" ELSE "1"],
                     get_enabled_devices(file), ids + 1, t)

PatchOf(op, enable, cur, file, ids, t) ==
    IF op = "sync_alias" THEN UpsertAlias(cur, get_enabled_devices(file), ids + 1, t)
    ELSE [cur EXCEPT !.rules[find_rule(cur)].disabled = IF enable THEN "0" ELSE "1"]

Ended(p, ok) == [running EXCEPT ![p].pc = "done", ![p].result = ok]

\* the pass begins: sync_alias looks at the registry first
StartPass(p, op, enable) ==
    /\ running[p].pc \in {"idle", "done"}
    /\ running[p].calls < MaxOverlapPasses
    /\ running' = [running EXCEPT ![p] =
            [pc |-> IF op = "set_enforcement" THEN "fetch"
                    ELSE IF get_enabled_devices(store) = <<>> THEN "done" ELSE "backup",
             calls |-> running[p].calls + 1, op |-> op, enable |-> enable,
             pre |-> DocMalformed, xml |-> DocMalformed, result |-> FALSE]]
    /\ UNCHANGED <<regVars, remoteVars, now>>

\* cp /conf/config.xml /conf/config_backup_parental_controls_<time>.xml
BackupStep(p) ==
    /\ running[p].pc = "backup"
    /\ nbak' = nbak + 1
    /\ running' = [running EXCEPT ![p].pc = "fetch"]
    /\ UNCHANGED <<regVars, conf, staging, pass, prior, npass, uuids, now>>

\* cat /conf/config.xml, and the local work on what it returned
FetchStep(p) ==
    /\ running[p].pc = "fetch"
    /\ IF ~conf.wellformed \/ (running[p].op = "set_enforcement" /\ find_rule(conf) = 0)
       THEN running' = Ended(p, FALSE) /\ uuids' = uuids
       ELSE /\ running' = [running EXCEPT ![p].pc = "push", ![p].pre = conf,
                   ![p].xml = PatchOf(running[p].op, running[p].enable, conf, store, uuids, now)]
            /\ uuids' = IF /\ running[p].op = "sync_alias"
                           /\ find_alias_by_name([conf EXCEPT !.sections = 4], AliasName) = 0
                        THEN uuids + 1 ELSE uuids
    /\ UNCHANGED <<regVars, conf, staging, nbak, pass, prior, npass, now>>

\* scp <temporary file> root@router:/tmp/new_config.xml
PushStep(p) ==
    /\ running[p].pc = "push"
    /\ staging' = <<running[p].xml>>
    /\ running' = [running EXCEPT ![p].pc = "install"]
    /\ UNCHANGED <<regVars, conf, nbak, pass, prior, npass, uuids, now>>

\* mv /tmp/new_config.xml /conf/config.xml
InstallStep(p) ==
    /\ running[p].pc = "install"
    /\ IF staging = <<>>
       THEN running' = Ended(p, FALSE) /\ UNCHANGED <<conf, staging>>
       ELSE /\ conf' = staging[1]
            /\ staging' = <<>>
            /\ running' = [running EXCEPT ![p].pc = "reload"]
    /\ UNCHANGED <<regVars, nbak, pass, prior, npass, uuids, now>>

\* the reload commands, which touch neither file
ReloadStep(p) ==
    /\ running[p].pc = "reload"
    /\ running' = Ended(p, TRUE)
    /\ UNCHANGED <<regVars, remoteVars, now>>

NextOverlap ==
    \/ \E p \in Callers : StartPass(p, "sync_alias", FALSE)
    \/ \E p \in Callers, e \in BOOLEAN : StartPass(p, "set_enforcement", e)
    \/ \E p \in Callers : BackupStep(p)
    \/ \E p \in Callers : FetchStep(p)
    \/ \E p \in Callers : PushStep(p)
    \/ \E p \in Callers : InstallStep(p)
    \/ \E p \in Callers : ReloadStep(p)

SpecOverlap == InitFw /\ [][NextOverlap]_vars

----------------------------------------------------------------------------
(* Claims about the registry *)

\* a call of the registry was made in this step
Called(op) == nops' = nops + 1 /\ last'.op = op

\* C1: in every state reached from the empty store by add, update, delete and
\* import_from_text, no two devices of list() have the same canonical MAC.
C1_NoSharedMac ==
    \A i, j \in DOMAIN list : i # j => list[i].mac # list[j].mac

\* C2: in every such state no two devices of list() have names that are
\* equal when compared case-insensitively.
C2_NoSharedName ==
    \A i, j \in DOMAIN list : i # j => Lower(list[i].name) # Lower(list[j].name)

\* C3: a successful add returns the id 1 + the largest id of list() before
\* the call (1 on an empty list), and in every reachable state the devices of
\* list() have pairwise distinct positive ids.
C3_IdsDistinctPositive ==
    /\ \A i \in DOMAIN list : list[i].id > 0
    /\ \A i, j \in DOMAIN list : i # j => list[i].id # list[j].id

C3_AddAssignsNextId ==
    (Called("add") /\ last'.result = "ok") =>
        last'.device.id = (IF Len(list) = 0 THEN 1 ELSE MaxOf(Ids(list)) + 1)

C3_Ids == [][C3_AddAssignsNextId]_vars /\ []C3_IdsDistinctPositive

\* C4: add(name, mac) fails when the canonical form of mac is the MAC of a
\* device of list(), when the cleaned name is the name of a device of list()
\* up to case, and when name or mac fails validation; the store file and the
\* backup directory are then exactly as before the call.
C4_AddRejected ==
    LET cn == validate_device_name(last'.name.val)
        nm == normalize_mac(last'.mac.val)
        conflict == \E i \in DOMAIN list :
                        \/ list[i].mac = nm.val
                        \/ Lower(list[i].name) = Lower(cn.val)
    IN  (Called("add") /\ (~cn.ok \/ ~nm.ok \/ conflict)) =>
            /\ last'.result \in {"invalid_name", "invalid_mac",
                                 "duplicate_mac", "duplicate_name"}
            /\ store' = store
            /\ backups' = backups

C4_AddRejectsBeforeMutation == [][C4_AddRejected]_vars

\* a name that differs in case from a stored one, and a MAC written in
\* another format than the stored one, were both turned down
C4_Witness ==
    /\ last.op = "add"
    /\ last.result \in {"duplicate_mac", "duplicate_name"}
    /\ Len(list) > 0
    /\ \A i \in DOMAIN list :
          /\ list[i].name # validate_device_name(last.name.val).val
          /\ list[i].original_mac # last.mac.val

\* C5: for every id of list(), update(id, mac=X) succeeds when the canonical
\* form of X is that device's own MAC and fails, leaving the store unchanged,
\* when it is the MAC of a different device; likewise for update(id, name=X)
\* with names compared case-insensitively.
C5_UpdateStep ==
    LET id == last'.id
        own == CHOOSE i \in DOMAIN list : list[i].id = id /\ \A j \in 1..(i - 1) : list[j].id # id
        nm == normalize_mac(last'.mac.val)
        cn == validate_device_name(last'.name.val)
        macOnly == last'.mac.some /\ ~last'.name.some /\ ~last'.enabled.some /\ nm.ok
        nameOnly == last'.name.some /\ ~last'.mac.some /\ ~last'.enabled.some /\ cn.ok
    IN  (Called("update") /\ last'.io = "ok" /\ id \in Ids(list)) =>
            /\ (macOnly /\ nm.val = list[own].mac) => last'.result = "ok"
            /\ (macOnly /\ nm.val # list[own].mac
                    /\ \E i \in DOMAIN list : i # own /\ list[i].mac = nm.val)
                  => (last'.result = "duplicate_mac" /\ store' = store)
            /\ (nameOnly /\ Lower(cn.val) = Lower(list[own].name)) => last'.result = "ok"
            /\ (nameOnly /\ Lower(cn.val) # Lower(list[own].name)
                    /\ \E i \in DOMAIN list : i # own /\ Lower(list[i].name) = Lower(cn.val))
                  => (last'.result = "duplicate_name" /\ store' = store)

C5_UpdateSelfAndOther == [][C5_UpdateStep]_vars

----------------------------------------------------------------------------
(* Claims about the reconciliation passes *)

\* a pass was made in this step
Passed(op) == npass' = npass + 1 /\ pass'.op = op

AnyPass == npass' = npass + 1

\* the pass got as far as replacing /conf/config.xml
InstalledBy(p) == \E i \in DOMAIN p.cmds : p.cmds[i] = Issued("mv", TRUE)

ReloadNames == << "configctl webgui restart configd", "configctl filter reload",
                  "/usr/local/etc/rc.configure_firewall",
                  "/usr/local/etc/rc.filter_configure" >>

\* the reload commands the pass issued, in the order it issued them
ReloadsOf(p) == SelectSeq(p.cmds, LAMBDA c : c.cmd \in Range(ReloadNames))

FailedIn(p, cmd) == \E i \in DOMAIN p.cmds : p.cmds[i] = Issued(cmd, FALSE)

\* C6: after a sync_alias pass that returns ok, the alias ParentalControlMACs
\* of the remote document has as content the canonical MACs of the devices of
\* list() at the start of the pass, one per device, in list order, joined by
\* newlines, and it is of type mac and enabled.
C6_SyncStep ==
    (Passed("sync_alias") /\ pass'.result) =>
        LET k == find_alias_by_name(conf', AliasName)
        IN  /\ k # 0
            /\ conf'.aliases[k].content = Join([i \in DOMAIN list |-> list[i].mac], "\n")
            /\ conf'.aliases[k].type = "mac"
            /\ conf'.aliases[k].enabled = "1"

C6_AliasHoldsCanonicalMacs == [][C6_SyncStep]_vars

\* a pass over two devices, one stored in lower case and one with dashes,
\* replaced the content of an alias that existed before
C6_Witness ==
    /\ pass.op = "sync_alias" /\ pass.result /\ npass = 1 /\ nops = 0
    /\ Len(list) = 2
    /\ \A i \in DOMAIN list : list[i].original_mac # list[i].mac
    /\ uuids = 0
    /\ LET k == find_alias_by_name(conf, AliasName)
       IN  k # 0 /\ Len(conf.aliases[k].content) = 2 * (MacDigits + 5) + 1

\* C7: a sync_alias pass made when the registry has no enabled device returns
\* failure and issues no transport command; the remote host is as before.
C7_SyncStep ==
    (Passed("sync_alias") /\ get_enabled_devices(store) = <<>>) =>
        /\ ~pass'.result
        /\ pass'.cmds = <<>>
        /\ conf' = conf
        /\ staging' = staging
        /\ nbak' = nbak

C7_EmptyRegistryIssuesNothing == [][C7_SyncStep]_vars

\* the only device was deleted, and the pass made after that stopped at once
C7_Witness ==
    /\ pass.op = "sync_alias" /\ ~pass.result /\ pass.stage = "devices"
    /\ pass.cmds = <<>>
    /\ last.op = "delete" /\ last.result = "ok"
    /\ list = <<>>

\* C8 as stated: after the install the reload strategies (a), (b), (c), (d)
\* are attempted in that order and none is attempted after an earlier one
\* succeeded.
C8_StopStep ==
    (AnyPass /\ InstalledBy(pass')) =>
        LET r == ReloadsOf(pass')
        IN  /\ Len(r) \in 1..4
            /\ \A i \in DOMAIN r : r[i].cmd = ReloadNames[i]
            /\ \A i \in DOMAIN r : i < Len(r) => ~r[i].ok

C8_StopsAtFirstSuccess == [][C8_StopStep]_vars

\* C8 amended: after the install (a), (b) and (c) are attempted in that
\* order whatever (a) and (b) return; (d) is attempted exactly when (c)
\* failed; nothing is attempted after (c) or (d).
C8_ChainStep ==
    (AnyPass /\ InstalledBy(pass')) =>
        LET r == ReloadsOf(pass')
        IN  /\ Len(r) \in 3..4
            /\ \A i \in DOMAIN r : r[i].cmd = ReloadNames[i]
            /\ Len(r) = 4 <=> ~r[3].ok

C8_ReloadChain == [][C8_ChainStep]_vars

\* (a) succeeded, and (b) and (c) were run all the same
C8_Witness ==
    /\ npass > 0 /\ InstalledBy(pass)
    /\ Len(ReloadsOf(pass)) = 3
    /\ ReloadsOf(pass)[1].ok

\* C9: given that the copy and the install succeeded, the pass fails exactly
\* when both rc.configure_firewall and rc.filter_configure fail; a failure of
\* the configd restart or of the filter reload neither ends the pass nor
\* changes its result.
C9_ApplyStep ==
    (AnyPass /\ InstalledBy(pass')) =>
        /\ ~pass'.result <=> (/\ FailedIn(pass', ReloadNames[3])
                              /\ FailedIn(pass', ReloadNames[4]))
        /\ \E i \in DOMAIN pass'.cmds : pass'.cmds[i].cmd = ReloadNames[3]

C9_ApplyResult == [][C9_ApplyStep]_vars

\* (a), (b) and (c) failed, (d) worked, and the pass returned ok
C9_Witness ==
    /\ npass > 0 /\ InstalledBy(pass) /\ pass.result
    /\ FailedIn(pass, ReloadNames[1])
    /\ FailedIn(pass, ReloadNames[2])
    /\ FailedIn(pass, ReloadNames[3])
    /\ pass.cmds[Len(pass.cmds)] = Issued(ReloadNames[4], TRUE)

\* C10 as stated: whenever a pass returns failure, at whichever stage, the
\* remote document is what it was before the pass.
C10_FailStep == (AnyPass /\ ~pass'.result) => conf' = conf

PatchedBy(p) ==
    IF p.op = "sync_alias"
    THEN UpsertAlias(conf, get_enabled_devices(store), uuids + 1, now)
    ELSE IF p.op = "ensure_block_rule"
    THEN UpsertRule(conf, p.enable, uuids + 1, now)
    ELSE [conf EXCEPT !.rules[find_rule(conf)].disabled = IF p.enable THEN "0" ELSE "1"]

\* C10 amended: a pass that fails before the install succeeded (no device,
\* remote backup, fetch, parse, lookup, push, install) leaves the remote
\* document as it was; a pass that fails in the reload leaves the document it
\* built installed.
C10_InstallStep ==
    (AnyPass /\ ~pass'.result) =>
        IF InstalledBy(pass') THEN pass'.stage = "apply" /\ conf' = PatchedBy(pass')
        ELSE conf' = conf

C11_StatusAfterToggle ==
    (pass.op = "set_enforcement" /\ pass.result) =>
        \A fetched \in BOOLEAN :
            LET s == get_parental_control_status(store, conf, fetched)
            IN  IF fetched
                THEN ~s.error /\ s.rule_exists /\ (s.rule_enabled <=> pass.enable)
                ELSE s.error

\* the hand-written rule, which had no disabled element, was switched off
C11_Witness ==
    /\ pass.op = "set_enforcement" /\ pass.result /\ ~pass.enable
    /\ find_rule(conf) # 0
    /\ conf.rules[find_rule(conf)].uuid = HandRule.uuid
    /\ ~get_parental_control_status(store, conf, TRUE).rule_enabled
    /\ get_parental_control_status(store, conf, TRUE).rule_exists

\* C12: a successful ensure_block_rule(false) on a document with no rule
\* that holds the marker adds exactly one rule, which is disabled, of type
\* block, direction in, quick, with the alias as source and any as
\* destination; a successful set_enforcement(true) made next changes the
\* disabled flag of that rule and nothing else of it or of the other rules.
C12_EnsureStep ==
    (Passed("ensure_block_rule") /\ pass'.result /\ ~pass'.enable /\ find_rule(conf) = 0) =>
        /\ Len(conf'.rules) = Len(conf.rules) + 1
        /\ SubSeq(conf'.rules, 1, Len(conf.rules)) = conf.rules
        /\ LET r == conf'.rules[Len(conf'.rules)]
           IN  /\ r.disabled = "1" /\ r.type = "block" /\ r.direction = "in"
               /\ r.quick = "1" /\ r.source = AliasName /\ r.destination = "any"
               /\ r.descr.marker

C12_ToggleStep ==
    (/\ Passed("set_enforcement") /\ pass'.result /\ pass'.enable
     /\ pass.op = "ensure_block_rule" /\ pass.result /\ ~pass.enable) =>
        LET k == find_rule(conf)
        IN  /\ k # 0
            /\ conf'.rules = [conf.rules EXCEPT ![k] = [@ EXCEPT !.disabled = "0"]]
            /\ conf.rules[k].disabled = "1"

C12_RuleCreatedThenSwitched == [][C12_EnsureStep /\ C12_ToggleStep]_vars

\* the first pass created the rule, disabled; the second switched it on
C12_Witness ==
    /\ npass = 2 /\ uuids = 1
    /\ prior = [op |-> "ensure_block_rule", enable |-> FALSE, result |-> TRUE]
    /\ pass.op = "set_enforcement" /\ pass.result /\ pass.enable
    /\ find_rule(conf) # 0
    /\ conf.rules[find_rule(conf)].uuid = 1
    /\ conf.rules[find_rule(conf)].disabled = "0"

\* C13: set_enforcement(e) on a document in which no rule holds the marker
\* returns failure; no rule is created and nothing is pushed, installed or
\* reloaded: the one command it issues is the fetch, and the remote document
\* and the staging file are as before.
C13_ToggleStep ==
    (Passed("set_enforcement") /\ \A i \in DOMAIN conf.rules : ~conf.rules[i].descr.marker) =>
        /\ ~pass'.result
        /\ conf' = conf
        /\ staging' = staging
        /\ uuids' = uuids
        /\ \A i \in DOMAIN pass'.cmds : pass'.cmds[i].cmd = "cat /conf/config.xml"

C13_NoRuleNoToggle == [][C13_ToggleStep]_vars

\* the document was fetched and parsed, it holds rules, none with the marker
C13_Witness ==
    /\ pass.op = "set_enforcement" /\ ~pass.result /\ pass.stage = "lookup"
    /\ pass.cmds = <<Issued("cat /conf/config.xml", TRUE)>>
    /\ conf.rules # <<>>
    /\ \A i \in DOMAIN conf.rules : ~conf.rules[i].descr.marker

\* the alias ParentalControlMACs of a document
AliasOf(root) == root.aliases[find_alias_by_name(root, AliasName)]

\* C14: a successful sync_alias made right after a successful sync_alias,
\* with the same enabled devices, at whatever time, leaves the alias
\* ParentalControlMACs as the first one left it, description and uuid
\* included.
C14_SecondSyncStep ==
    (/\ Passed("sync_alias") /\ pass'.result
     /\ pass.op = "sync_alias" /\ pass.result) =>
        AliasOf(conf') = AliasOf(conf)

C14_SyncTwiceIdentical == [][C14_SecondSyncStep]_vars

\* the positions of the aliases named ParentalControlMACs
Named(root) == {i \in DOMAIN root.aliases : root.aliases[i].name = AliasName}

\* C15: a successful sync_alias on a document with at most one alias named
\* ParentalControlMACs leaves exactly one; an alias that existed keeps its
\* place and its uuid; one that did not is added under
\* OPNsense/Firewall/Alias/aliases with a uuid no alias had, the missing
\* sections being created; the other aliases are as before.  Hence after
\* any sequence of successful sync_alias passes there is exactly one.
C15_SyncStep ==
    (Passed("sync_alias") /\ pass'.result /\ Cardinality(Named(conf)) <= 1) =>
        /\ Cardinality(Named(conf')) = 1
        /\ conf'.sections = 4
        /\ \A i \in DOMAIN conf.aliases \ Named(conf) : conf'.aliases[i] = conf.aliases[i]
        /\ IF Named(conf) # {}
           THEN /\ Named(conf') = Named(conf)
                /\ Len(conf'.aliases) = Len(conf.aliases)
                /\ \A i \in Named(conf) : conf'.aliases[i].uuid = conf.aliases[i].uuid
           ELSE /\ Named(conf') = {Len(conf.aliases) + 1}
                /\ Len(conf'.aliases) = Len(conf.aliases) + 1
                /\ \A i \in DOMAIN conf.aliases :
                      conf.aliases[i].uuid # conf'.aliases[Len(conf'.aliases)].uuid

C15_AfterSync ==
    (pass.op = "sync_alias" /\ pass.result) => Cardinality(Named(conf)) = 1

C15_OneAlias == [][C15_SyncStep]_vars /\ []C15_AfterSync

\* the first pass created the sections and the alias, the second kept it
C15_Witness ==
    /\ npass = 2 /\ uuids = 1
    /\ prior = [op |-> "sync_alias", enable |-> FALSE, result |-> TRUE]
    /\ pass.op = "sync_alias" /\ pass.result
    /\ conf.version = "1.0.1"
    /\ Named(conf) = {1}
    /\ conf.aliases[1].uuid = 1

\* the non-blank lines of the store file
StoreLines(file) ==
    IF Strip(file) = <<>> THEN <<>>
    ELSE SelectSeq(Split(Strip(file), "\n"), LAMBDA l : Strip(l) # <<>>)

\* the call of this step wrote the store file
Wrote ==
    /\ nops' = nops + 1
    /\ \/ last'.op \in {"add", "update", "delete"} /\ last'.result = "ok"
       \/ last'.op = "import" /\ last'.added > 0 /\ last'.io = "ok"

\* C16: after every successful mutating operation the store holds one line
\* for each device of list() and the ids of the lines ascend; list() never
\* holds a device with enabled = false; after a successful
\* update(id, enabled=false) list() no longer holds id, and an
\* update(id, enabled=true) of an id that list() does not hold fails with
\* NotFound.
C16_Lines ==
    Wrote =>
        /\ Len(StoreLines(store')) = Len(load_mac_addresses(store'))
        /\ \A i, j \in DOMAIN load_mac_addresses(store') :
              i < j => load_mac_addresses(store')[i].id < load_mac_addresses(store')[j].id
        /\ last'.op = "add" => Len(load_mac_addresses(store')) = Len(list) + 1

C16_Disable ==
    (Called("update") /\ last'.result = "ok" /\ last'.enabled.some /\ ~last'.enabled.val) =>
        /\ last'.id \notin Ids(load_mac_addresses(store'))
        /\ Len(load_mac_addresses(store')) = Len(list) - 1

C16_Enable ==
    (Called("update") /\ last'.enabled.some /\ last'.enabled.val /\ last'.id \notin Ids(list)) =>
        last'.result = "not_found" /\ store' = store

C16_AllEnabled == \A i \in DOMAIN list : list[i].enabled

C16_StoreEnabledOnly ==
    [][C16_Lines /\ C16_Disable /\ C16_Enable]_vars /\ []C16_AllEnabled

\* C17: for every store content, when L is list(), then after save(L)
\* list() holds, for every device of L, a device with the same id, name and
\* canonical MAC, and no other device.
C17_ResaveStep ==
    (Called("resave") /\ last'.result = "ok") =>
        LET L == load_mac_addresses(store)
            R == load_mac_addresses(store')
            same(a, b) == a.id = b.id /\ a.name = b.name /\ a.mac = b.mac
        IN  /\ \A i \in DOMAIN L : \E j \in DOMAIN R : same(L[i], R[j])
            /\ \A j \in DOMAIN R : \E i \in DOMAIN L : same(L[i], R[j])

C17_RoundTrip == [][C17_ResaveStep]_vars

\* C18: import_from_text handles every non-blank line of the text on its
\* own: a line that fails gives one error and the lines after it are still
\* handled, every other line adds one device; so added_count plus the
\* number of errors is the number of non-blank lines, no line has two
\* errors, and list() grows by added_count devices.
C18_ImportStep ==
    Called("import") =>
        LET lines == Split(last'.text, "\n")
            nonblank == {k \in DOMAIN lines : Strip(lines[k]) # <<>>}
            errs == last'.errors
        IN  /\ last'.added + Len(errs) = Cardinality(nonblank)
            /\ \A i \in DOMAIN errs : errs[i].line \in nonblank
            /\ \A i, j \in DOMAIN errs : i # j => errs[i].line # errs[j].line
            /\ Len(load_mac_addresses(store')) = Len(list) + last'.added

C18_ImportCounts == [][C18_ImportStep]_vars

\* what the call recorded in c does to the store when every file system call
\* works
Unfaulted(c) ==
    IF c.op = "add" THEN add_device(store, backups, c.name.val, c.mac.val, "ok")
    ELSE IF c.op = "update"
    THEN update_device(store, backups, c.id, c.name, c.mac, c.enabled, "ok")
    ELSE delete_device(store, backups, c.id, "ok")

\* C19: when the copy of the store file into the backup file fails, an add,
\* update or delete that would otherwise succeed still writes the new device
\* list to the store file and reports success.
C19_BackupStep ==
    (/\ nops' = nops + 1
     /\ last'.op \in {"add", "update", "delete"}
     /\ last'.io = "backup_fails"
     /\ Unfaulted(last').result = "ok") =>
        /\ last'.result = "ok"
        /\ store' = Unfaulted(last').store

C19_BackupBestEffort == [][C19_BackupStep]_vars

\* the device and the device of list() agree on id, name and canonical MAC
SameDevice(a, b) == a.id = b.id /\ a.name = b.name /\ a.mac = b.mac

\* C20: a successful update(id, ...) returns the device with its id and
\* with the former value of every one of name, mac and enabled that was not
\* passed; list() then holds every other device with its id, name and MAC,
\* and the device itself unless it was disabled; update of an id that list()
\* does not hold fails with NotFound and leaves the store as it was.
C20_UpdateStep ==
    Called("update") =>
        LET c == last'
            R == load_mac_addresses(store')
            hit == {i \in DOMAIN list : list[i].id = c.id}
        IN  IF hit = {}
            THEN c.result = "not_found" /\ store' = store /\ backups' = backups
            ELSE c.result = "ok" =>
                 LET k == CHOOSE i \in hit : \A j \in hit : i <= j
                     off == c.enabled.some /\ ~c.enabled.val
                 IN  /\ c.device.id = c.id
                     /\ ~c.name.some => c.device.name = list[k].name
                     /\ ~c.mac.some => /\ c.device.mac = list[k].mac
                                       /\ c.device.original_mac = list[k].original_mac
                     /\ ~c.enabled.some => c.device.enabled = list[k].enabled
                     /\ \A i \in DOMAIN list \ {k} : \E j \in DOMAIN R : SameDevice(list[i], R[j])
                     /\ Len(R) = IF off THEN Len(list) - 1 ELSE Len(list)
                     /\ ~off => \E j \in DOMAIN R :
                                  /\ R[j].id = c.id
                                  /\ ~c.name.some => R[j].name = list[k].name
                                  /\ ~c.mac.some => R[j].mac = list[k].mac

C20_UpdateFrame == [][C20_UpdateStep]_vars

\* the id, name and canonical MAC of every device, in order
Identities(devices) ==
    [i \in DOMAIN devices |->
        [id |-> devices[i].id, name |-> devices[i].name, mac |-> devices[i].mac]]

\* C21: delete(id) of an id that list() does not hold fails with NotFound
\* and leaves the store file and the backups as they were; a delete(id) that
\* succeeds leaves a list() that is the former one without the devices of
\* that id, every other device with its id, name and MAC.
C21_DeleteStep ==
    Called("delete") =>
        IF last'.id \notin Ids(list)
        THEN last'.result = "not_found" /\ store' = store /\ backups' = backups
        ELSE /\ last'.result # "not_found"
             /\ last'.result = "ok" =>
                    Identities(load_mac_addresses(store'))
                        = Identities(SortById(SelectSeq(list, LAMBDA d : d.id # last'.id)))

C22_NormalizeStep ==
    Called("normalize_mac") =>
        LET x == last'.text
            digits == SelectSeq(x, LAMBDA c : c \in HexSet)
            grouped == [i \in 1..17 |-> IF i % 3 = 0 THEN ":"
                                        ELSE UpperChar(digits[i - (i \div 3)])]
        IN  /\ IF Len(digits) = 12
               THEN last'.result = "ok" /\ last'.mac = Some(grouped)
               ELSE last'.result = "invalid_mac"
            /\ last.op = "normalize_mac" => last'.mac = last.mac

C22_NormalizeMac == [][C22_NormalizeStep]_vars

\* letters, digits, underscore, hyphen and the space character
PlainNameChars == LowerSet \cup UpperSet \cup DigitSet \cup {"_", "-", " "}

PlainName(name) ==
    /\ Len(name) \in 1..NameLimit
    /\ \A i \in DOMAIN name : name[i] \in PlainNameChars

\* C23: the name of the device a successful add or update returns, and every
\* name of list(), has 1 to 50 characters, each a letter, a digit, an
\* underscore, a hyphen or a space; so no name holds a tab, a newline or "|".
C23_AcceptedStep ==
    (/\ nops' = nops + 1
     /\ last'.result = "ok"
     /\ \/ last'.op = "add"
        \/ last'.op = "update" /\ last'.name.some) => PlainName(last'.device.name)

C23_Listed == \A i \in DOMAIN list : PlainName(list[i].name)

C23_PlainNames == [][C23_AcceptedStep]_vars /\ []C23_Listed

\* both callers are done, both were told the device was added, and both had
\* read the same store
BothAdded ==
    /\ \A p \in Callers : running[p].pc = "done" /\ running[p].result = "ok"
    /\ running[1].pre = running[2].pre

\* C24: two add calls that overlap can both read the store as it was before
\* either wrote; when both do and both succeed, the store that is left holds
\* the devices read and the device of the caller that wrote last, and not
\* the device of the other caller, whose name and MAC are different.
C24_LastWriterWins ==
    (/\ BothAdded
     /\ Lower(running[1].device.name) # Lower(running[2].device.name)
     /\ running[1].device.mac # running[2].device.mac) =>
        /\ Len(list) = Len(load_mac_addresses(running[1].pre)) + 1
        /\ \E p \in Callers :
              /\ \E i \in DOMAIN list : SameDevice(list[i], running[p].device)
              /\ \A q \in Callers \ {p} :
                    \A i \in DOMAIN list : ~SameDevice(list[i], running[q].device)

\* the two callers passed different names and different MACs, both were told
\* the device was added, and the device of the first caller is not listed
C24_Witness ==
    /\ BothAdded
    /\ Lower(running[1].device.name) # Lower(running[2].device.name)
    /\ running[1].device.mac # running[2].device.mac
    /\ \A i \in DOMAIN list : list[i].mac # running[1].device.mac
    /\ running[1].pre # <<>>
    /\ Len(list) = 2

\* caller p made a sync_alias and caller q a set_enforcement; both fetched
\* the same document, each built a document that differs from it in its own
\* node, and both returned ok
BothPassed(p, q) ==
    /\ running[p].pc = "done" /\ running[p].result /\ running[p].op = "sync_alias"
    /\ running[q].pc = "done" /\ running[q].result /\ running[q].op = "set_enforcement"
    /\ running[p].pre = running[q].pre
    /\ running[p].xml.aliases # running[p].pre.aliases
    /\ running[q].xml.rules # running[q].pre.rules

\* C25: nothing keeps two passes from overlapping.  When a sync_alias and a
\* set_enforcement fetch the same document and both return ok, the remote
\* document holds the change of one of them only: either the aliases are the
\* ones fetched and the rules those of set_enforcement, or the rules are the
\* ones fetched and the aliases those of sync_alias.
C25_OneChangeSurvives ==
    \A p, q \in Callers :
        BothPassed(p, q) =>
            \/ conf.aliases = running[p].pre.aliases /\ conf.rules = running[q].xml.rules
            \/ conf.rules = running[q].pre.rules /\ conf.aliases = running[p].xml.aliases

\* sync_alias returned ok and the remote document has no alias
\* ParentalControlMACs: the document set_enforcement built was installed last
C25_Witness ==
    /\ BothPassed(1, 2)
    /\ find_alias_by_name(conf, AliasName) = 0
    /\ find_alias_by_name(running[1].xml, AliasName) # 0
    /\ conf = running[2].xml

----------------------------------------------------------------------------
(* C26: the stages of a sync_alias or ensure_block_rule pass.               *)

\* the stage a remote command belongs to
StageOf(cmd) ==
    IF cmd = "cp /conf/config.xml" THEN "BackingUp"
    ELSE IF cmd = "cat /conf/config.xml" THEN "FetchingRemote"
    ELSE IF cmd \in {"scp", "mv"} THEN "Pushing"
    ELSE "Applying"

\* the stages a pass entered, in the order it entered them: those of the
\* commands it issued, with the local patching and serializing in front of the
\* first copy to the firewall or, when the pass stopped on the fetched
\* document, at the end
StageTrail(p) ==
    LET at == {i \in DOMAIN p.cmds : p.cmds[i].cmd = "scp"}
        k == IF at = {} THEN Len(p.cmds) + 1 ELSE CHOOSE i \in at : \A j \in at : i <= j
        remote == [i \in DOMAIN p.cmds |-> StageOf(p.cmds[i].cmd)]
        local == IF at # {} THEN <<"Patching", "Serializing">>
                 ELSE IF p.stage \in {"parse", "lookup"} THEN <<"Patching">>
                 ELSE <<>>
        all == SubSeq(remote, 1, k - 1) \o local \o SubSeq(remote, k, Len(remote))
    IN  SelectSeq([i \in DOMAIN all |-> [s |-> all[i], first |-> i = 1 \/ all[i - 1] # all[i]]],
                  LAMBDA e : e.first)

\* the trail runs through the order, skipping nothing it has passed and
\* entering no stage twice
Follows(trail, order) ==
    /\ \A i \in DOMAIN trail : \E r \in DOMAIN order : order[r] = trail[i].s
    /\ \A i, j \in DOMAIN trail :
           i < j => \E r, s \in DOMAIN order :
                        r < s /\ order[r] = trail[i].s /\ order[s] = trail[j].s

EndsDoneOrFailed(p) ==
    /\ p.result <=> p.stage = "done"
    /\ ~p.result => p.stage \in {"devices", "backup", "fetch", "parse", "lookup",
                                 "push", "install", "apply"}

\* C26 as stated: in every sync_alias and ensure_block_rule pass the stages are
\* entered in the order FetchingRemote, Backing Up, Patching, Serializing,
\* Pushing, Applying, none twice, and the pass ends in Done or Failed
C26_StatedOrder ==
    pass.op \in {"sync_alias", "ensure_block_rule"} =>
        /\ Follows(StageTrail(pass), <<"FetchingRemote", "BackingUp", "Patching",
                                       "Serializing", "Pushing", "Applying">>)
        /\ EndsDoneOrFailed(pass)

\* C26, amended: in every sync_alias and ensure_block_rule pass the stages are
\* entered in the order Backing Up, FetchingRemote, Patching, Serializing,
\* Pushing, Applying (the remote backup is taken before the remote document is
\* fetched), no stage is entered twice, and the pass ends in Done or Failed
C26_StageOrder ==
    pass.op \in {"sync_alias", "ensure_block_rule"} =>
        /\ Follows(StageTrail(pass), <<"BackingUp", "FetchingRemote", "Patching",
                                       "Serializing", "Pushing", "Applying">>)
        /\ EndsDoneOrFailed(pass)

\* a sync_alias pass that went through all six stages and ended in Done
C26_Witness ==
    /\ pass.op = "sync_alias"
    /\ pass.result
    /\ Len(StageTrail(pass)) = 6
    /\ StageTrail(pass)[1].s = "BackingUp"
    /\ StageTrail(pass)[2].s = "FetchingRemote"

----------------------------------------------------------------------------
(* C27: a removal reaches the firewall.                                     *)

\* the device the last registry call removed: the one with the id in the
\* backup save_mac_addresses took of the file it replaced
Removed == get_device(backups[Len(backups)], last.id)

\* the MACs the remote alias ParentalControlMACs holds
AliasMacs(root) ==
    IF Named(root) = {} THEN {}
    ELSE Range(Split(AliasOf(root).content, "\n"))

\* C27: after delete_device(id) or update(id, enabled=false) has succeeded on
\* an enabled device, a sync_alias pass in which no command fails leaves the
\* remote alias ParentalControlMACs without that device's MAC, whatever the
\* size of the registry
C27_SyncStep ==
    (/\ Passed("sync_alias")
     /\ \A i \in DOMAIN pass'.cmds : pass'.cmds[i].ok
     /\ last.op \in {"delete", "update"}
     /\ last.result = "ok"
     /\ Removed # NoDevice
     /\ Removed.enabled)
        => Removed.mac \notin AliasMacs(conf')

C27_RemovalReachesFirewall == [][C27_SyncStep]_vars

----------------------------------------------------------------------------
(* C28: the record add_device returns and the persisted state.              *)

\* C28: after a successful add(name, mac) returning r, get_device(r.id)
\* returns a device whose id, name and canonical MAC are those of r
C28_AddStep ==
    (Called("add") /\ last'.result = "ok") =>
        LET r == last'.device
            d == get_device(store', r.id)
        IN  /\ d # NoDevice
            /\ d.id = r.id
            /\ d.name = r.name
            /\ d.mac = r.mac

C28_AddAgreesWithStore == [][C28_AddStep]_vars

----------------------------------------------------------------------------
(* C30: the toggle flow of the callers.                                     *)

\* the disabled flags of the rules, in document order
Flags(root) == [i \in DOMAIN root.rules |-> root.rules[i].disabled]

\* C30: in a toggle request set_enforcement is attempted only after the
\* preceding sync_alias returned ok; when the sync fails, for lack of an enabled
\* device or otherwise, the request reports failure and no rule's disabled
\* flag changes, whether the request turns enforcement off or on
C30_ToggleStep ==
    Called("toggle_controls") =>
        /\ prior'.op = "sync_alias"
        /\ pass'.op = "set_enforcement" => prior'.result
        /\ ~prior'.result =>
              /\ pass'.op = "sync_alias"
              /\ last'.result = "failed"
              /\ Flags(conf') = Flags(conf)

C30_ToggleOnlyAfterSync == [][C30_ToggleStep]_vars

\* a request to turn enforcement off was refused on an empty registry, with a
\* rule on the firewall to switch off
C30_Witness ==
    /\ last.op = "toggle_controls"
    /\ last.result = "failed"
    /\ pass.op = "sync_alias"
    /\ ~pass.enable
    /\ pass.stage = "devices"
    /\ find_rule(conf) # 0

----------------------------------------------------------------------------
(* C29: a pass touches only its target node.                                *)

\* the first rule, in document order, whose description holds the marker;
\* 0 when there is none
FirstMarked(root) ==
    LET hit == {i \in DOMAIN root.rules : root.rules[i].descr.marker}
    IN  IF hit = {} THEN 0 ELSE CHOOSE i \in hit : \A j \in hit : i <= j

\* the first alias named ParentalControlMACs, 0 when there is none
FirstNamed(root) ==
    IF Named(root) = {} THEN 0 ELSE CHOOSE i \in Named(root) : \A j \in Named(root) : i <= j

\* the sequence after is the sequence before with at most the element at k
\* rewritten in place or, when k = 0, at most one element appended
OnlyAt(before, after, k) ==
    /\ \A i \in DOMAIN before : i # k => (i \in DOMAIN after /\ after[i] = before[i])
    /\ IF k # 0 THEN Len(after) = Len(before)
       ELSE Len(after) \in {Len(before), Len(before) + 1}

\* C29: sync_alias changes nothing in the document except the alias named
\* ParentalControlMACs and the sections it has to create to hold it;
\* ensure_block_rule and set_enforcement change nothing except the first rule
\* whose description holds the marker, a rule being appended at the end only
\* when no rule matches; the other aliases, the other rules and the order of
\* the rules are kept
C29_SyncStep ==
    Passed("sync_alias") =>
        /\ conf'.rules = conf.rules
        /\ conf'.filter = conf.filter
        /\ conf'.wellformed = conf.wellformed
        /\ conf.sections = 4 =>
               conf'.sections = conf.sections /\ conf'.version = conf.version
        /\ OnlyAt(conf.aliases, conf'.aliases, FirstNamed(conf))
        /\ Len(conf'.aliases) > Len(conf.aliases) =>
               conf'.aliases[Len(conf'.aliases)].name = AliasName

C29_RuleStep ==
    (Passed("ensure_block_rule") \/ Passed("set_enforcement")) =>
        /\ conf'.aliases = conf.aliases
        /\ conf'.sections = conf.sections
        /\ conf'.version = conf.version
        /\ conf'.wellformed = conf.wellformed
        /\ conf.filter => conf'.filter
        /\ OnlyAt(conf.rules, conf'.rules, FirstMarked(conf))
        /\ Len(conf'.rules) > Len(conf.rules) =>
               /\ pass'.op = "ensure_block_rule"
               /\ conf'.rules[Len(conf'.rules)].descr.marker

====
